---- MODULE Spec2Model ----
(***************************************************************************)
(* Model of the toga location service: the Cocoa Geolocation peer          *)
(* (cocoa/src/toga_cocoa/hardware/geolocation.py), its delegate, the       *)
(* native CLLocationManager it drives, and the application-facing Location *)
(* interface that calls the peer.                                          *)
(*                                                                         *)
(* Optional values (None in the source) are sequences of length 0 or 1.    *)
(* Result values are tagged tuples: <<"bool", b>>, <<"LatLng", lat, lng>>, *)
(* <<"RuntimeError", message, cause>>.                                     *)
(***************************************************************************)
EXTENDS Integers, Sequences, FiniteSets, TLC

\* ------------------------------------------------------------------ bounds
\* Result cells (futures) the application creates in one run.
MaxCells == 2
\* Native location-updated callbacks delivered in one run.
MaxBatches == 2
\* Locations carried by one native location-updated callback.
MaxBatchLen == 2

\* ------------------------------------------------------------------ values
Statuses == {"NotDetermined", "Denied", "AuthorizedWhenInUse", "AuthorizedAlways"}

Coordinates == {<<37, 42>>, <<42, 37>>}
VerticalAccuracies == {-1, 0, 1}
Altitudes == {5}

\* A native CLLocation.
Locations ==
    [coordinate : Coordinates, verticalAccuracy : VerticalAccuracies,
     ellipsoidalAltitude : Altitudes]

\* What the code reads of the location the native manager has cached
\* (native.location): its coordinate.
Cached(location) == [coordinate |-> location.coordinate]

\* The errors the native manager reports.
NativeErrors == {"kCLErrorLocationUnknown", "kCLErrorNetwork"}

\* Entry points entry_points() reports at most.
MaxInstalled == 2

\* Entry points one discovery reports at most.
MaxReports == 3

\* The most ticks a slider is given.
MaxTicks == 4

\* The data sources one detailed list is given in one run.
MaxSources == 3
\* The most rows of a data source.
MaxRows == 3

\* The argument of locationManager:didUpdateLocations: .
Batches == UNION {[1..n -> Locations] : n \in 1..MaxBatchLen}

None == <<>>
Some(v) == <<v>>

LatLng(latitude, longitude) == <<"LatLng", latitude, longitude>>
Bool(b) == <<"bool", b>>
NoException == <<"none">>
PermissionError == <<"PermissionError">>
RuntimeError(message, cause) == <<"RuntimeError", message, cause>>

Cells == 1..MaxCells
NewCell == [kind |-> "none", state |-> "unused", value |-> None, sets |-> 0]

VARIABLES
    authorizationStatus,  \* native.authorizationStatus
    nativeLocation,       \* native.location: None or Some(cached location)
    nativeUpdating,       \* startUpdatingLocation is in force
    authorizationAsked,   \* a requestAlwaysAuthorization awaits its callback
    locationAsked,        \* a requestLocation awaits its callback
    permission_requests,  \* Geolocation.permission_requests
    location_requests,    \* Geolocation.location_requests
    cells,                \* the result cells handed out so far
    on_change_calls,      \* number of invocations of interface.on_change
    batches,              \* native location-updated callbacks delivered
    last,                 \* what the latest handler did
    delivered,            \* the batch the latest handler was called with
    TOGA_BACKEND,         \* os.environ.get("TOGA_BACKEND")
    entry_points,         \* entry_points(group="toga.backends")
    current_platform,     \* toga.platform.current_platform
    import_failure,       \* the module whose import fails, and how
    factory_cache,        \* the cache functools.cache keeps for the resolver
    factory_call,         \* the latest get_platform_factory() call
    returned,             \* every factory a call has returned
    slider,               \* a Slider, its peer and its latest assignment
    detailedlist,         \* a DetailedList, its sources and its peer
    splitcontainer,       \* a SplitContainer, its peer and the widgets
    assigned              \* the content the latest assignment was given

nativeVars ==
    <<authorizationStatus, nativeLocation, nativeUpdating, authorizationAsked,
      locationAsked>>
peerVars == <<permission_requests, location_requests, cells>>
listenerVars == <<on_change_calls, batches>>
locationVars == <<nativeVars, peerVars, listenerVars, last>>
\* The process around the backend resolver.
environmentVars ==
    <<TOGA_BACKEND, entry_points, current_platform, import_failure>>
platformVars == <<environmentVars, factory_cache, factory_call, returned>>
\* The widgets of the application.
widgetVars == <<slider, detailedlist, splitcontainer, assigned>>
\* What the location service does not touch.
otherVars == <<delivered, platformVars, widgetVars>>
vars == <<locationVars, otherVars>>
\* What an assignment to the slider, to the detailed list, to the split
\* container does not touch.
sliderFrame ==
    <<locationVars, delivered, platformVars, detailedlist, splitcontainer,
      assigned>>
detailedlistFrame ==
    <<locationVars, delivered, platformVars, slider, splitcontainer,
      assigned>>
splitcontainerFrame ==
    <<locationVars, delivered, platformVars, slider, detailedlist>>

Range(s) == {s[i] : i \in 1..Len(s)}

\* The next result cell the application creates (MaxCells + 1: none left).
NextCell ==
    IF \A c \in Cells : cells[c].kind # "none"
    THEN MaxCells + 1
    ELSE CHOOSE c \in Cells :
            /\ cells[c].kind = "none"
            /\ \A d \in Cells : d < c => cells[d].kind # "none"

\* The record of one handler: the operation, what it raised, the native
\* methods it called, the cell it was given, the cells a callback found
\* pending, the on_change invocations it made, and a callback's argument
\* (for start, the error the native manager raised).
Did(op, raised, native, cell, drained, listener, arg) ==
    [op |-> op, raised |-> raised, native |-> native, cell |-> cell,
     drained |-> drained, listener |-> listener, arg |-> arg,
     tracking |-> FALSE]

\* The record of start and stop: also whether the native manager was
\* updating when the call began.
DidTrack(op, raised, native, arg, tracking) ==
    [Did(op, raised, native, 0, {}, <<>>, arg) EXCEPT !.tracking = tracking]

\* The application has a result cell left to create.
CanCreate == NextCell <= MaxCells

\* ---------------------------------------------------------- result cells
set_result(cs, future, value) ==
    [cs EXCEPT ![future] =
        [@ EXCEPT !.state = "result", !.value = Some(value), !.sets = @ + 1]]

set_exception(cs, future, exception) ==
    [cs EXCEPT ![future] =
        [@ EXCEPT !.state = "exception", !.value = Some(exception), !.sets = @ + 1]]

create(cs, future, kind) ==
    [cs EXCEPT ![future] = [NewCell EXCEPT !.kind = kind, !.state = "pending"]]

\* ------------------------------------------------------- Geolocation peer
\* has_permission that counts NotDetermined as permission for every caller.
has_permission_unknown_allowed(status, allow_unknown) ==
    status \in {"AuthorizedAlways", "AuthorizedWhenInUse", "NotDetermined"}

\* has_permission that leaves AuthorizedWhenInUse out of the valid values.
has_permission_always_only(status, allow_unknown) ==
    status \in {"AuthorizedAlways"}
              \cup (IF allow_unknown THEN {"NotDetermined"} ELSE {})

\* has_permission that ignores allow_unknown.
has_permission_unknown_refused(status, allow_unknown) ==
    status \in {"AuthorizedAlways", "AuthorizedWhenInUse"}

has_permission_status(status, allow_unknown) ==
    LET valid_values ==
            {"AuthorizedAlways", "AuthorizedWhenInUse"}
                \cup (IF allow_unknown THEN {"NotDetermined"} ELSE {})
    IN  status \in valid_values

has_permission(allow_unknown) ==
    has_permission_status(authorizationStatus, allow_unknown)

has_background_permission ==
    authorizationStatus = "AuthorizedAlways"

\* while requests: future = requests.pop(); future.set_result(value)
RECURSIVE DrainResult(_, _, _)
DrainResult(requests, cs, value) ==
    IF requests = <<>>
    THEN [requests |-> requests, cells |-> cs]
    ELSE DrainResult(SubSeq(requests, 1, Len(requests) - 1),
                     set_result(cs, requests[Len(requests)], value), value)

\* while requests: future = requests.pop(); future.set_exception(exception)
RECURSIVE DrainException(_, _, _)
DrainException(requests, cs, exception) ==
    IF requests = <<>>
    THEN [requests |-> requests, cells |-> cs]
    ELSE DrainException(SubSeq(requests, 1, Len(requests) - 1),
                        set_exception(cs, requests[Len(requests)], exception),
                        exception)

\* _authorization_change that hands a denial to the waiting requests as a
\* PermissionError.
_authorization_change_raising(status) ==
    LET drained ==
            IF has_permission_status(status, FALSE)
            THEN DrainResult(permission_requests, cells, Bool(TRUE))
            ELSE DrainException(permission_requests, cells, PermissionError)
    IN  /\ permission_requests' = drained.requests
        /\ cells' = drained.cells
        /\ last' = Did("authorization_changed", NoException, {}, 0,
                       Range(permission_requests), <<>>, None)
        /\ UNCHANGED <<location_requests, listenerVars>>

\* Geolocation._authorization_change, run with the status the native manager
\* reports when the callback fires.
_authorization_change(status) ==
    LET drained == DrainResult(permission_requests, cells,
                               Bool(has_permission_status(status, FALSE)))
    IN  /\ permission_requests' = drained.requests
        /\ cells' = drained.cells
        /\ last' = Did("authorization_changed", NoException, {}, 0,
                       Range(permission_requests), <<>>, None)
        /\ UNCHANGED <<location_requests, listenerVars>>

\* The altitude, with a vertical accuracy of zero taken for a valid one.
altitude_of_nonnegative(location) ==
    IF location.verticalAccuracy >= 0
    THEN Some(location.ellipsoidalAltitude)
    ELSE None

\* The altitude _location_change reports.
altitude_of(location) ==
    IF location.verticalAccuracy > 0
    THEN Some(location.ellipsoidalAltitude)
    ELSE None

\* _location_change with "if" for "while": only the newest request is resolved.
_location_change_pop_one(location) ==
    LET latlng == LatLng(location.coordinate[1], location.coordinate[2])
        call == [location |-> latlng, altitude |-> altitude_of(location)]
        n == Len(location_requests)
    IN  /\ location_requests' =
              IF n = 0 THEN <<>> ELSE SubSeq(location_requests, 1, n - 1)
        /\ cells' =
              IF n = 0 THEN cells
              ELSE set_result(cells, location_requests[n], latlng)
        /\ on_change_calls' = on_change_calls + 1
        /\ last' = Did("location_updated", NoException, {}, 0,
                       Range(location_requests), <<call>>, Some(location))
        /\ UNCHANGED permission_requests

\* Geolocation._location_change
_location_change(location) ==
    LET latlng == LatLng(location.coordinate[1], location.coordinate[2])
        altitude == altitude_of(location)
        drained == DrainResult(location_requests, cells, latlng)
        call == [location |-> latlng, altitude |-> altitude]
    IN  /\ location_requests' = drained.requests
        /\ cells' = drained.cells
        /\ on_change_calls' = on_change_calls + 1
        /\ last' = Did("location_updated", NoException, {}, 0,
                       Range(location_requests), <<call>>, Some(location))
        /\ UNCHANGED permission_requests

\* _location_error that also tells the change listener.
_location_error_notifying(error) ==
    LET drained == DrainException(location_requests, cells,
                       RuntimeError("Unable to obtain a location", error))
        call == [location |-> LatLng(0, 0), altitude |-> None]
    IN  /\ location_requests' = drained.requests
        /\ cells' = drained.cells
        /\ on_change_calls' = on_change_calls + 1
        /\ last' = Did("location_failed", NoException, {}, 0,
                       Range(location_requests), <<call>>, Some(error))
        /\ UNCHANGED permission_requests

\* _location_error that walks the list without popping from it.
_location_error_keeping(error) ==
    LET drained == DrainException(location_requests, cells,
                       RuntimeError("Unable to obtain a location", error))
    IN  /\ cells' = drained.cells
        /\ last' = Did("location_failed", NoException, {}, 0,
                       Range(location_requests), <<>>, Some(error))
        /\ UNCHANGED <<permission_requests, location_requests, on_change_calls>>

\* Geolocation._location_error
_location_error(error) ==
    LET drained == DrainException(location_requests, cells,
                       RuntimeError("Unable to obtain a location", error))
    IN  /\ location_requests' = drained.requests
        /\ cells' = drained.cells
        /\ last' = Did("location_failed", NoException, {}, 0,
                       Range(location_requests), <<>>, Some(error))
        /\ UNCHANGED <<permission_requests, on_change_calls>>

\* Geolocation.request_permission
request_permission(future) ==
    /\ permission_requests' = Append(permission_requests, future)
    /\ cells' = create(cells, future, "permission")
    /\ authorizationAsked' = TRUE
    /\ last' = Did("request_permission", NoException,
                   {"requestAlwaysAuthorization"}, future, {}, <<>>, None)
    /\ UNCHANGED <<authorizationStatus, nativeLocation, nativeUpdating,
                   locationAsked, location_requests,
                   listenerVars>>

\* Geolocation.request_background_permission
request_background_permission(future) ==
    /\ permission_requests' = Append(permission_requests, future)
    /\ cells' = create(cells, future, "background")
    /\ authorizationAsked' = TRUE
    /\ last' = Did("request_background_permission", NoException,
                   {"requestAlwaysAuthorization"}, future, {}, <<>>, None)
    /\ UNCHANGED <<authorizationStatus, nativeLocation, nativeUpdating,
                   locationAsked, location_requests,
                   listenerVars>>

\* current_location that queues the request without asking the native
\* manager for a location.
current_location_unasked(result) ==
    IF has_permission(TRUE)
    THEN IF nativeLocation = None
         THEN /\ location_requests' = Append(location_requests, result)
              /\ cells' = create(cells, result, "location")
              /\ last' = Did("current_location", NoException, {}, result, {},
                             <<>>, None)
              /\ UNCHANGED <<nativeVars, permission_requests, listenerVars>>
         ELSE /\ cells' = set_result(create(cells, result, "location"), result,
                              LatLng(nativeLocation[1].coordinate[1],
                                     nativeLocation[1].coordinate[2]))
              /\ last' = Did("current_location", NoException, {}, result, {},
                             <<>>, None)
              /\ UNCHANGED <<nativeVars, permission_requests, location_requests,
                             listenerVars>>
    ELSE /\ last' = Did("current_location", PermissionError, {}, 0, {}, <<>>, None)
         /\ UNCHANGED <<nativeVars, peerVars, listenerVars>>

\* current_location that goes to the native manager whatever it has cached.
current_location_uncached(result) ==
    IF has_permission(TRUE)
    THEN /\ location_requests' = Append(location_requests, result)
         /\ cells' = create(cells, result, "location")
         /\ locationAsked' = TRUE
         /\ last' = Did("current_location", NoException,
                        {"requestLocation"}, result, {}, <<>>, None)
         /\ UNCHANGED <<authorizationStatus, nativeLocation, nativeUpdating,
                        authorizationAsked,
                        permission_requests, listenerVars>>
    ELSE /\ last' = Did("current_location", PermissionError, {}, 0, {}, <<>>, None)
         /\ UNCHANGED <<nativeVars, peerVars, listenerVars>>

\* Geolocation.current_location
current_location(result) ==
    IF has_permission(TRUE)
    THEN IF nativeLocation = None
         THEN /\ location_requests' = Append(location_requests, result)
              /\ cells' = create(cells, result, "location")
              /\ locationAsked' = TRUE
              /\ last' = Did("current_location", NoException,
                             {"requestLocation"}, result, {}, <<>>, None)
              /\ UNCHANGED <<authorizationStatus, nativeLocation, nativeUpdating,
                             authorizationAsked,
                             permission_requests, listenerVars>>
         ELSE /\ cells' = set_result(create(cells, result, "location"), result,
                              LatLng(nativeLocation[1].coordinate[1],
                                     nativeLocation[1].coordinate[2]))
              /\ last' = Did("current_location", NoException, {}, result, {},
                             <<>>, None)
              /\ UNCHANGED <<nativeVars, permission_requests, location_requests,
                             listenerVars>>
    ELSE /\ last' = Did("current_location", PermissionError, {}, 0, {}, <<>>, None)
         /\ UNCHANGED <<nativeVars, peerVars, listenerVars>>

\* start that drops the one-shot requests still pending.
start_resetting ==
    IF has_permission(TRUE)
    THEN /\ nativeUpdating' = TRUE
         /\ location_requests' = <<>>
         /\ last' = DidTrack("start_tracking", NoException,
                             {"startUpdatingLocation"}, None, nativeUpdating)
         /\ UNCHANGED <<authorizationStatus, nativeLocation, authorizationAsked,
                        locationAsked, permission_requests, cells, listenerVars>>
    ELSE /\ last' = DidTrack("start_tracking", PermissionError, {}, None,
                             nativeUpdating)
         /\ UNCHANGED <<nativeVars, peerVars, listenerVars>>

\* Geolocation.start
start ==
    IF has_permission(TRUE)
    THEN /\ nativeUpdating' = TRUE
         /\ last' = DidTrack("start_tracking", NoException,
                             {"startUpdatingLocation"}, None, nativeUpdating)
         /\ UNCHANGED <<authorizationStatus, nativeLocation, authorizationAsked,
                        locationAsked, peerVars, listenerVars>>
    ELSE /\ last' = DidTrack("start_tracking", PermissionError, {}, None,
                             nativeUpdating)
         /\ UNCHANGED <<nativeVars, peerVars, listenerVars>>

\* A failed start that hands the error to the pending one-shot requests
\* instead of raising it.
start_tracking_error_queued(error) ==
    LET drained == DrainException(location_requests, cells,
                       RuntimeError("Unable to start tracking", error))
    IN  /\ has_permission(TRUE)
        /\ location_requests' = drained.requests
        /\ cells' = drained.cells
        /\ last' = DidTrack("start_tracking", NoException,
                            {"startUpdatingLocation"}, Some(error),
                            nativeUpdating)
        /\ UNCHANGED <<nativeVars, permission_requests, listenerVars>>

\* A start whose native call fails: the native manager raises error, which
\* reaches the caller of start_tracking() as a RuntimeError.
start_tracking_error(error) ==
    /\ has_permission(TRUE)
    /\ last' = DidTrack("start_tracking",
                        RuntimeError("Unable to start tracking", error),
                        {"startUpdatingLocation"}, Some(error), nativeUpdating)
    /\ UNCHANGED <<nativeVars, peerVars, listenerVars>>

\* stop that refuses to stop what was never started.
stop_strict ==
    IF has_permission(TRUE)
    THEN IF nativeUpdating
         THEN /\ nativeUpdating' = FALSE
              /\ last' = DidTrack("stop_tracking", NoException,
                                  {"stopUpdatingLocation"}, None, nativeUpdating)
              /\ UNCHANGED <<authorizationStatus, nativeLocation,
                             authorizationAsked, locationAsked, peerVars,
                             listenerVars>>
         ELSE /\ last' = DidTrack("stop_tracking",
                                  RuntimeError("Not tracking", "none"), {}, None,
                                  nativeUpdating)
              /\ UNCHANGED <<nativeVars, peerVars, listenerVars>>
    ELSE /\ last' = DidTrack("stop_tracking", PermissionError, {}, None,
                             nativeUpdating)
         /\ UNCHANGED <<nativeVars, peerVars, listenerVars>>

\* Geolocation.stop
stop ==
    IF has_permission(TRUE)
    THEN /\ nativeUpdating' = FALSE
         /\ last' = DidTrack("stop_tracking", NoException,
                             {"stopUpdatingLocation"}, None, nativeUpdating)
         /\ UNCHANGED <<authorizationStatus, nativeLocation, authorizationAsked,
                        locationAsked, peerVars, listenerVars>>
    ELSE /\ last' = DidTrack("stop_tracking", PermissionError, {}, None,
                             nativeUpdating)
         /\ UNCHANGED <<nativeVars, peerVars, listenerVars>>

\* ------------------------------------------------ the Location interface
\* Location.request_permission: success at once when permission is held,
\* otherwise the request goes to the peer.
Location_request_permission ==
    /\ CanCreate
    /\ IF has_permission(FALSE)
       THEN /\ cells' = set_result(create(cells, NextCell, "permission"),
                                   NextCell, Bool(TRUE))
            /\ last' = Did("request_permission", NoException, {}, NextCell, {},
                           <<>>, None)
            /\ UNCHANGED <<nativeVars, permission_requests, location_requests,
                           listenerVars>>
       ELSE request_permission(NextCell)

\* Location.request_background_permission: a precondition failure without
\* foreground permission; success at once when background permission is
\* held; otherwise the request goes to the peer.
Location_request_background_permission ==
    IF ~has_permission(FALSE)
    THEN /\ last' = Did("request_background_permission", PermissionError, {},
                        0, {}, <<>>, None)
         /\ UNCHANGED <<nativeVars, peerVars, listenerVars>>
    ELSE /\ CanCreate
         /\ IF has_background_permission
            THEN /\ cells' = set_result(create(cells, NextCell, "background"),
                                        NextCell, Bool(TRUE))
                 /\ last' = Did("request_background_permission", NoException,
                                {}, NextCell, {}, <<>>, None)
                 /\ UNCHANGED <<nativeVars, permission_requests,
                                location_requests, listenerVars>>
            ELSE request_background_permission(NextCell)

\* Location.current_location: a fresh result cell, handed to the peer.
Location_current_location ==
    /\ has_permission(TRUE) => CanCreate
    /\ current_location(NextCell)

\* Location.start_tracking, forwarded to the peer.
Location_start_tracking ==
    \/ start
    \/ \E error \in NativeErrors : start_tracking_error(error)

\* Location.stop_tracking, forwarded to the peer.
Location_stop_tracking ==
    stop

\* ------------------------------------------- the delegate's three callbacks
\* What the user (or the system) answers to requestAlwaysAuthorization.
AuthorizationAnswers(status) ==
    CASE status = "NotDetermined" ->
            {"Denied", "AuthorizedWhenInUse", "AuthorizedAlways"}
      [] status = "AuthorizedWhenInUse" ->
            {"AuthorizedWhenInUse", "AuthorizedAlways"}
      [] OTHER -> {status}

\* TogaLocationDelegate.locationManagerDidChangeAuthorization_
locationManagerDidChangeAuthorization ==
    /\ authorizationAsked
    /\ \E status \in AuthorizationAnswers(authorizationStatus) :
          /\ authorizationStatus' = status
          /\ _authorization_change(status)
    /\ authorizationAsked' = FALSE
    /\ UNCHANGED <<nativeLocation, nativeUpdating, locationAsked>>

\* locationManager_didUpdateLocations_ that takes the oldest location of
\* the batch.
didUpdateLocations_first(locations) ==
    /\ locationAsked \/ nativeUpdating
    /\ batches < MaxBatches
    /\ _location_change(locations[1])
    /\ nativeLocation' = Some(Cached(locations[Len(locations)]))
    /\ batches' = batches + 1
    /\ locationAsked' = FALSE
    /\ UNCHANGED <<authorizationStatus, nativeUpdating, authorizationAsked>>

\* TogaLocationDelegate.locationManager_didUpdateLocations_, called with
\* one batch: the newest location is its last.
didUpdateLocations(locations) ==
    /\ locationAsked \/ nativeUpdating
    /\ batches < MaxBatches
    /\ _location_change(locations[Len(locations)])
    /\ nativeLocation' = Some(Cached(locations[Len(locations)]))
    /\ batches' = batches + 1
    /\ locationAsked' = FALSE
    /\ UNCHANGED <<authorizationStatus, nativeUpdating, authorizationAsked>>

\* TogaLocationDelegate.locationManager_didUpdateLocations_
locationManager_didUpdateLocations ==
    \E locations \in Batches : didUpdateLocations(locations)

\* The same callback, the batch it was called with kept.
batch_didUpdateLocations ==
    \E locations \in Batches :
        /\ didUpdateLocations(locations)
        /\ delivered' = locations

\* TogaLocationDelegate.locationManager_didFailWithError_
locationManager_didFailWithError ==
    /\ locationAsked \/ nativeUpdating
    /\ \E error \in NativeErrors : _location_error(error)
    /\ locationAsked' = FALSE
    /\ UNCHANGED <<authorizationStatus, nativeLocation, nativeUpdating,
                   authorizationAsked, batches>>

\* ---------------------------------------------------------- toga.platform
\* An entry point of the group "toga.backends": name is the platform tag,
\* value the backend's module.
EntryPoint(name, value) == [name |-> name, value |-> value]

\* The backends that can be installed, in the order sorted() puts them:
\* by name, then by value.
EntryPointOrder ==
    <<EntryPoint("linux", "toga_gtk"), EntryPoint("linux", "toga_textual"),
      EntryPoint("macOS", "toga_cocoa")>>

\* What entry_points(group="toga.backends") can return: any backends, an
\* editable install reported twice.
Installations ==
    UNION {[1..n -> Range(EntryPointOrder)] : n \in 0..MaxInstalled}

\* The modules that exist on the import path.
Modules == {"toga_gtk", "toga_textual", "toga_cocoa", "toga_dummy"}

\* What TOGA_BACKEND can hold: unset, empty, a module, a module that does
\* not exist.
OverrideValues == {None, Some(""), Some("toga_dummy"), Some("nonexistent")}

\* How the import of an existing module can fail: one of its own imports is
\* missing, or it raises some other ImportError.
ImportFailures ==
    {None,
     Some([module |-> "toga_dummy", kind |-> "ModuleNotFoundError"]),
     Some([module |-> "toga_dummy", kind |-> "ImportError"]),
     Some([module |-> "toga_gtk", kind |-> "ImportError"])}

\* The values of sys.platform the resolver is started under.
SysPlatforms == {"linux", "darwin", "freebsd14", "sunos5"}

_TOGA_PLATFORMS ==
    [p \in {"android", "darwin", "ios", "linux", "freebsd", "tvos", "watchos",
            "wearos", "emscripten", "win32"} |->
        CASE p = "android" -> "android"
          [] p = "darwin" -> "macOS"
          [] p = "ios" -> "iOS"
          [] p = "linux" -> "linux"
          [] p = "freebsd" -> "freeBSD"
          [] p = "tvos" -> "tvOS"
          [] p = "watchos" -> "watchOS"
          [] p = "wearos" -> "wearOS"
          [] p = "emscripten" -> "web"
          [] p = "win32" -> "windows"]

\* sys.platform.startswith("freebsd")
startswith_freebsd(sys_platform) ==
    sys_platform \in {"freebsd", "freebsd14"}

\* get_current_platform; getandroidapilevel: sys has that attribute.
get_current_platform(getandroidapilevel, sys_platform) ==
    IF getandroidapilevel
    THEN Some("android")
    ELSE IF startswith_freebsd(sys_platform)
         THEN Some("freeBSD")
         ELSE IF sys_platform \in DOMAIN _TOGA_PLATFORMS
              THEN Some(_TOGA_PLATFORMS[sys_platform])
              ELSE None

\* sorted(entry_points(group="toga.backends")): duplicates kept.
RECURSIVE sorted_from(_, _)
sorted_from(backends, i) ==
    IF i > Len(EntryPointOrder)
    THEN <<>>
    ELSE SelectSeq(backends, LAMBDA backend : backend = EntryPointOrder[i])
            \o sorted_from(backends, i + 1)

\* find_backends that does not pass the entry points through a set.
find_backends_duplicated ==
    sorted_from(entry_points, 1)

\* find_backends
find_backends ==
    SelectSeq(EntryPointOrder, LAMBDA backend : backend \in Range(entry_points))

\* The record of one get_platform_factory() call: whether the function body
\* ran, what it returned or raised, what the error message names (the
\* attempted location, the cause, the backends listed, the platform) and
\* the backend discovery chose. seq tells one call from the next.
NoCall ==
    [seq |-> 0, computed |-> FALSE, outcome |-> "none", factory |-> "",
     exception |-> "", message |-> "", location |-> "", cause |-> "",
     listed |-> <<>>, platform |-> <<>>, selected |-> <<>>]

Returned(factory, selected) ==
    [NoCall EXCEPT !.outcome = "returned", !.factory = factory,
                   !.selected = selected]

Raised(exception, message) ==
    [NoCall EXCEPT !.outcome = "raised", !.exception = exception,
                   !.message = message]

\* importlib.import_module(f"{module}.factory"): the factory, or the
\* exception the import raises.
import_module(module) ==
    IF module \notin Modules
    THEN [raised |-> "ModuleNotFoundError", factory |-> ""]
    ELSE IF import_failure # None /\ import_failure[1].module = module
         THEN [raised |-> import_failure[1].kind, factory |-> ""]
         ELSE [raised |-> "", factory |-> module]

\* The branch of get_platform_factory taken when TOGA_BACKEND names a
\* backend that falls back on the installed backends when the import fails.
from_override_falling_back(backend_value) ==
    LET imported == import_module(backend_value)
    IN  IF imported.raised = ""
        THEN Returned(imported.factory, <<>>)
        ELSE IF find_backends = <<>>
             THEN Raised("RuntimeError", "No Toga backend could be loaded.")
             ELSE Returned(find_backends[1].value, <<find_backends[1]>>)

\* get_platform_factory, TOGA_BACKEND set: the module it names is imported;
\* a ModuleNotFoundError becomes a RuntimeError, anything else the import
\* raises goes to the caller as it is.
from_override(backend_value) ==
    LET imported == import_module(backend_value)
    IN  IF imported.raised = ""
        THEN Returned(imported.factory, <<>>)
        ELSE IF imported.raised = "ModuleNotFoundError"
             THEN [Raised("RuntimeError",
                          "The backend specified by TOGA_BACKEND could not be loaded")
                      EXCEPT !.location = backend_value,
                             !.cause = imported.raised,
                             !.listed = find_backends]
             ELSE Raised(imported.raised, "")

\* The import of the backend discovery chose (the last statement of the
\* else branch): nothing catches what it raises.
import_backend(backend) ==
    LET imported == import_module(backend.value)
    IN  IF imported.raised = ""
        THEN Returned(imported.factory, <<backend>>)
        ELSE [Raised(imported.raised, "") EXCEPT !.selected = <<backend>>]

\* The backends whose name is the current platform.
matching_backends(toga_backends) ==
    SelectSeq(toga_backends,
              LAMBDA backend : Some(backend.name) = current_platform)

\* The choice among several installed backends that takes the first match
\* when more than one matches.
several_backends_first_match(toga_backends) ==
    LET matching == matching_backends(toga_backends)
    IN  IF Len(matching) = 0
        THEN [Raised("RuntimeError",
                     "Multiple Toga backends are installed, but none of them match your current platform")
                 EXCEPT !.listed = toga_backends,
                        !.platform = <<current_platform>>]
        ELSE import_backend(matching[1])

\* get_platform_factory, the case of several installed backends.
several_backends(toga_backends) ==
    LET matching == matching_backends(toga_backends)
    IN  CASE Len(matching) = 0 ->
                [Raised("RuntimeError",
                        "Multiple Toga backends are installed, but none of them match your current platform")
                    EXCEPT !.listed = toga_backends,
                           !.platform = <<current_platform>>]
          [] Len(matching) = 1 -> import_backend(matching[1])
          [] OTHER ->
                [Raised("RuntimeError", "Multiple candidate toga backends found")
                    EXCEPT !.listed = matching]

\* get_platform_factory, TOGA_BACKEND unset or empty.
from_discovery ==
    LET toga_backends == find_backends
    IN  CASE Len(toga_backends) = 0 ->
                Raised("RuntimeError", "No Toga backend could be loaded.")
          [] Len(toga_backends) = 1 -> import_backend(toga_backends[1])
          [] OTHER -> several_backends(toga_backends)

\* The body of get_platform_factory.
resolve ==
    IF TOGA_BACKEND # None /\ TOGA_BACKEND[1] # ""
    THEN from_override(TOGA_BACKEND[1])
    ELSE from_discovery

\* One call, given what it comes to: the cache keeps what a call returns.
Called(result) ==
    /\ factory_call' = [result EXCEPT !.seq = 1 - factory_call.seq]
    /\ factory_cache' =
          IF result.outcome = "returned"
          THEN Some(result.factory)
          ELSE factory_cache
    /\ returned' =
          returned \cup
              (IF result.outcome = "returned" THEN {result.factory} ELSE {})
    /\ UNCHANGED environmentVars

\* get_platform_factory without @cache: every call runs the body.
get_platform_factory_uncached ==
    Called([resolve EXCEPT !.computed = TRUE])

\* get_platform_factory under @cache: a call that finds a factory cached
\* returns it; any other call runs the body, and only a returned factory is
\* cached.
get_platform_factory ==
    IF factory_cache # None
    THEN Called(Returned(factory_cache[1], <<>>))
    ELSE Called([resolve EXCEPT !.computed = TRUE])

\* The environment changes between two calls: TOGA_BACKEND is set or unset.
setenv ==
    /\ \E value \in OverrideValues \ {TOGA_BACKEND} : TOGA_BACKEND' = value
    /\ UNCHANGED <<entry_points, current_platform, import_failure,
                   factory_cache, factory_call, returned>>

\* Backends are installed or removed between two calls.
install ==
    /\ \E backends \in Installations \ {entry_points} :
          entry_points' = backends
    /\ UNCHANGED <<TOGA_BACKEND, current_platform, import_failure,
                   factory_cache, factory_call, returned>>

\* ------------------------------------------------------ toga.widgets.slider
\* The slider's numbers are floats (float(value), float(_min), float(_max)
\* and the true division in tick_step). A float is modelled as a whole
\* number of units in the last place: a quotient is rounded to the nearest
\* float, a tie to the even one, as binary floating point rounds it; a
\* product with a tick index and a sum of two floats are exact.
\* The end points a range is made of.
SliderEndpoints == {0, 5, 11, 24}

\* The values assigned to Slider.value: every float between the end
\* points, one below and one above.
SliderValues == -1..25

\* The ranges assigned to Slider.range, in the form <<min, max>>.
SliderRanges == SliderEndpoints \X SliderEndpoints

\* The counts assigned to Slider.tick_count.
SliderTickCounts == {None} \cup {Some(n) : n \in 0..MaxTicks}

\* The ticks assigned to Slider.tick_value.
SliderTickValues == {None} \cup {Some(t) : t \in 0..(MaxTicks + 1)}

\* The handlers assigned to Slider.on_change.
SliderHandlers == {None, Some("on_change_1"), Some("on_change_2")}

\* Python's round(p / q) for q > 0: to the nearest integer, a tie to the
\* even one.
round(p, q) ==
    LET f == p \div q
        r == p - f * q
    IN  IF 2 * r < q THEN f
        ELSE IF 2 * r > q THEN f + 1
        ELSE IF f % 2 = 0 THEN f ELSE f + 1

\* Slider(range=(0, 24)): no ticks, the value at the mid-point, no
\* handler. op, raised, calls and seq describe the latest assignment: the
\* property assigned, the exception it raised, the handlers it invoked;
\* seq tells one assignment from the next.
NewSlider ==
    [range |-> <<0, 24>>, tick_count |-> None, value |-> 12, _on_change |-> None,
     op |-> "init", raised |-> "", calls |-> <<>>, seq |-> 0]

\* The start of an assignment to a property of the slider.
SliderAssign(s, op) ==
    [s EXCEPT !.op = op, !.raised = "", !.calls = <<>>, !.seq = 1 - @]

\* raise ValueError(...)
SliderRaise(s) == [s EXCEPT !.raised = "ValueError"]

\* self.on_change(self)
SliderNotify(s) == [s EXCEPT !.calls = Append(@, s._on_change[1])]

\* Slider.min, Slider.max
Slider_min(s) == s.range[1]

Slider_max(s) == s.range[2]

\* Slider.tick_step: (self.max - self.min) / (self.tick_count - 1), a float.
Slider_tick_step(s) ==
    IF s.tick_count = None
    THEN None
    ELSE Some(round(Slider_max(s) - Slider_min(s), s.tick_count[1] - 1))

\* Slider.tick_value (getter)
Slider_tick_value(s) ==
    IF s.tick_count # None
    THEN Some(round(s.value - Slider_min(s), Slider_tick_step(s)[1]) + 1)
    ELSE None

\* Slider.value (setter)
Slider_value_set(s, value) ==
    IF ~(Slider_min(s) <= value /\ value <= Slider_max(s))
    THEN SliderRaise(s)
    ELSE LET old_value == s.value
             step == Slider_tick_step(s)
             rounded ==
                 IF step # None
                 THEN Slider_min(s)
                          + round(value - Slider_min(s), step[1]) * step[1]
                 ELSE value
             on_change == s._on_change
             suppressed == [s EXCEPT !._on_change = None]
             stored == [suppressed EXCEPT !.value = rounded]
             restored == [stored EXCEPT !._on_change = on_change]
         IN  IF restored._on_change # None /\ rounded # old_value
             THEN SliderNotify(restored)
             ELSE restored

\* Slider.range (setter) without _suppress_change around the clipping.
Slider_range_set_unsuppressed(s, range) ==
    IF range[1] >= range[2]
    THEN SliderRaise(s)
    ELSE LET ranged == [s EXCEPT !.range = range]
             old_value == ranged.value
             clipped ==
                 Slider_value_set(ranged,
                     IF old_value < range[1] THEN range[1]
                     ELSE IF old_value > range[2] THEN range[2] ELSE old_value)
         IN  IF clipped._on_change # None /\ clipped.value # old_value
             THEN SliderNotify(clipped)
             ELSE clipped

\* Slider.range (setter): max(_min, min(_max, old_value)) is assigned to
\* value inside the with block; an exception in the block would leave it
\* without restoring the handler.
Slider_range_set(s, range) ==
    IF range[1] >= range[2]
    THEN SliderRaise(s)
    ELSE LET on_change == s._on_change
             suppressed == [s EXCEPT !._on_change = None]
             ranged == [suppressed EXCEPT !.range = range]
             old_value == ranged.value
             clipped ==
                 Slider_value_set(ranged,
                     IF old_value < range[1] THEN range[1]
                     ELSE IF old_value > range[2] THEN range[2] ELSE old_value)
             restored == [clipped EXCEPT !._on_change = on_change]
         IN  IF clipped.raised # ""
             THEN clipped
             ELSE IF restored._on_change # None /\ restored.value # old_value
                  THEN SliderNotify(restored)
                  ELSE restored

\* Slider.tick_count (setter)
Slider_tick_count_set(s, tick_count) ==
    IF tick_count # None /\ tick_count[1] < 2
    THEN SliderRaise(s)
    ELSE LET old_value == s.value
             on_change == s._on_change
             suppressed == [s EXCEPT !._on_change = None]
             counted == [suppressed EXCEPT !.tick_count = tick_count]
             restored == [counted EXCEPT !._on_change = on_change]
         IN  Slider_value_set(restored, old_value)

\* Slider.tick_value (setter)
Slider_tick_value_set(s, tick_value) ==
    IF s.tick_count = None
    THEN IF tick_value # None THEN SliderRaise(s) ELSE s
    ELSE IF tick_value = None
         THEN SliderRaise(s)
         ELSE Slider_value_set(s,
                  Slider_min(s) + (tick_value[1] - 1) * Slider_tick_step(s)[1])

\* Slider.on_change (setter)
Slider_on_change_set(s, handler) ==
    [s EXCEPT !._on_change = handler]

\* slider.value = value
SliderValue ==
    \E value \in SliderValues :
        slider' = Slider_value_set(SliderAssign(slider, "value"), value)

\* slider.range = range
SliderRange ==
    \E range \in SliderRanges :
        slider' = Slider_range_set(SliderAssign(slider, "range"), range)

\* slider.tick_count = tick_count
SliderTickCount ==
    \E tick_count \in SliderTickCounts :
        slider' = Slider_tick_count_set(SliderAssign(slider, "tick_count"),
                                        tick_count)

\* slider.tick_value = tick_value
SliderTickValue ==
    \E tick_value \in SliderTickValues :
        slider' = Slider_tick_value_set(SliderAssign(slider, "tick_value"),
                                        tick_value)

\* slider.on_change = handler
SliderOnChange ==
    \E handler \in SliderHandlers :
        slider' = Slider_on_change_set(SliderAssign(slider, "on_change"),
                                       handler)

\* ----------------------------------------------- toga.widgets.detailedlist
\* A DetailedList with the data sources it has been given, in the order of
\* their creation: .sources[i] is the number of rows and the listeners of
\* source i, ._data the source on display, .impl_source the source the peer
\* was told to display, .scrolled the row index handed to the peer by the
\* latest call, .changed and .notified the source that changed last and the
\* listeners it notified.

\* self._impl as a listener of a source.
DetailedListImpl == "_impl"

\* The rows asked for: any index, beyond both ends too.
ScrollRows == (0 - (MaxRows + 1))..(MaxRows + 1)

\* The values assigned to data.
DataNone == <<"None">>
DataIterable(rows) == <<"Iterable", rows>>
DataSource(i) == <<"Source", i>>

\* ListSource(data=..., accessors=...): a new source without listeners.
ListSource(rows) == [rows |-> rows, listeners |-> <<>>]

\* Source.add_listener: a listener is registered once.
add_listener(listeners, listener) ==
    IF \E i \in 1..Len(listeners) : listeners[i] = listener
    THEN listeners
    ELSE Append(listeners, listener)

\* The start of a call on the detailed list.
DetailedListCall(d, op) ==
    [d EXCEPT !.op = op, !.scrolled = None, !.changed = 0,
              !.notified = <<>>, !.seq = 1 - @]

\* DetailedList.data (setter)
DetailedList_data_set(d, data) ==
    LET sources ==
            IF data = DataNone
            THEN Append(d.sources, ListSource(0))
            ELSE IF data[1] = "Source"
                 THEN d.sources
                 ELSE Append(d.sources, ListSource(data[2]))
        _data == IF data[1] = "Source" THEN data[2] ELSE Len(sources)
    IN  [d EXCEPT
            !.sources =
                [sources EXCEPT
                    ![_data].listeners = add_listener(@, DetailedListImpl)],
            !._data = _data,
            !.impl_source = _data]

\* len(self.data)
DetailedList_len(d) == d.sources[d._data].rows

\* self._impl.scroll_to_row(index)
impl_scroll_to_row(d, index) == [d EXCEPT !.scrolled = Some(index)]

\* DetailedList.scroll_to_row
DetailedList_scroll_to_row(d, row) ==
    IF DetailedList_len(d) > 1
    THEN IF row >= 0
         THEN impl_scroll_to_row(d,
                  IF row < DetailedList_len(d)
                  THEN row ELSE DetailedList_len(d))
         ELSE impl_scroll_to_row(d,
                  IF DetailedList_len(d) + row > 0
                  THEN DetailedList_len(d) + row ELSE 0)
    ELSE d

\* DetailedList.scroll_to_top
DetailedList_scroll_to_top(d) == DetailedList_scroll_to_row(d, 0)

\* DetailedList.scroll_to_bottom
DetailedList_scroll_to_bottom(d) == DetailedList_scroll_to_row(d, 0 - 1)

\* ListSource.append on source i: every listener of the source is notified.
ListSource_append(d, i) ==
    [d EXCEPT !.sources[i].rows = @ + 1,
              !.changed = i,
              !.notified = d.sources[i].listeners]

\* DetailedList.__init__: self.data = data with the default, None.
NewDetailedList ==
    DetailedList_data_set(
        [sources |-> <<>>, _data |-> 0, impl_source |-> 0, scrolled |-> None,
         changed |-> 0, notified |-> <<>>, op |-> "init", seq |-> 0],
        DataNone)

\* What the application can assign to data: None, an iterable, or a source
\* it holds (one the list has had before, the current one included).
DetailedListDatas(d) ==
    {DataSource(i) : i \in 1..Len(d.sources)}
        \cup (IF Len(d.sources) < MaxSources
              THEN {DataNone} \cup {DataIterable(rows) : rows \in 0..MaxRows}
              ELSE {})

\* detailedlist.data = data
DetailedListData ==
    \E data \in DetailedListDatas(detailedlist) :
        detailedlist' =
            DetailedList_data_set(DetailedListCall(detailedlist, "data"), data)

\* detailedlist.scroll_to_row(row)
DetailedListScrollToRow ==
    \E row \in ScrollRows :
        detailedlist' =
            DetailedList_scroll_to_row(
                DetailedListCall(detailedlist, "scroll_to_row"), row)

\* detailedlist.scroll_to_top()
DetailedListScrollToTop ==
    detailedlist' =
        DetailedList_scroll_to_top(
            DetailedListCall(detailedlist, "scroll_to_top"))

\* detailedlist.scroll_to_bottom()
DetailedListScrollToBottom ==
    detailedlist' =
        DetailedList_scroll_to_bottom(
            DetailedListCall(detailedlist, "scroll_to_bottom"))

\* The application appends a row to a source it holds.
ListSourceAppend ==
    \E i \in 1..Len(detailedlist.sources) :
        /\ detailedlist.sources[i].rows < MaxRows
        /\ detailedlist' =
               ListSource_append(DetailedListCall(detailedlist, "append"), i)

\* --------------------------------------------- toga.widgets.splitcontainer
\* A SplitContainer with the widgets the application can put into it:
\* ._content is the stored content, .impl_content what the peer was given by
\* the latest set_content, .widgets[w] the app and the window of widget w,
\* .raised the exception the latest assignment ended with.
Widgets == {"widget_1", "widget_2"}
Apps == {None, Some("app")}
Windows == {None, Some("window")}
Flexes == {0, 2}

\* w._impl
impl_of(w) == <<"_impl", w>>

\* An item of the assigned content: a widget, None, or a string that is no
\* widget ("x", and "" which is falsy); alone, or first in a tuple with the
\* elements .rest after it.
Plain(kind, ref) == [tuple |-> FALSE, kind |-> kind, ref |-> ref, rest |-> <<>>]
Tuple(first, rest) == [first EXCEPT !.tuple = TRUE, !.rest = rest]
ItemNone == Plain("None", "")
ItemWidgets == {Plain("Widget", w) : w \in Widgets}
ItemStrings == {Plain("str", "x"), Plain("str", "")}
ItemFirsts == ItemWidgets \cup {ItemNone} \cup ItemStrings
Items ==
    ItemFirsts
        \cup {Tuple(first, <<flex>>) :
                first \in {Plain("Widget", "widget_1"), ItemNone},
                flex \in Flexes}
        \cup {Tuple(Plain("Widget", "widget_2"), <<1>>),
              Tuple(Plain("str", "x"), <<2>>),
              Tuple(ItemNone, <<>>),
              Tuple(Plain("Widget", "widget_1"), <<1, 1>>)}

\* The values assigned to content: an object without len(), or a sequence
\* of up to three items.
NotSized == [sized |-> FALSE, items |-> <<>>]
Sized(items) == [sized |-> TRUE, items |-> items]
Contents ==
    {NotSized, Sized(<<>>)}
        \cup {Sized(<<a>>) : a \in Items}
        \cup {Sized(<<a, b>>) : a \in Items, b \in Items}
        \cup {Sized(<<a, b, c>>) :
                a \in ItemWidgets, b \in {ItemNone}, c \in ItemWidgets}

\* SplitContainer.__init__ without content: both panels empty, nothing
\* handed to the peer, no app and no window yet.
NewSplitContainer ==
    [app |-> None, window |-> None, _content |-> <<None, None>>,
     impl_content |-> None,
     widgets |-> [w \in Widgets |-> [app |-> None, window |-> None]],
     op |-> "init", raised |-> "", seq |-> 0]

\* The start of an assignment to a property of the container.
SplitContainerAssign(s, op) ==
    [s EXCEPT !.op = op, !.raised = "", !.seq = 1 - @]
SplitContainerRaise(s, exception) == [s EXCEPT !.raised = exception]

\* Widget.app and Widget.window (setters) of a widget in the content.
Widget_app_set(s, w, app) == [s EXCEPT !.widgets[w].app = app]
Widget_window_set(s, w, window) == [s EXCEPT !.widgets[w].window = window]

\* bool(widget): None and "" are falsy.
truthy(widget) == ~(widget.kind = "None" \/ (widget.kind = "str" /\ widget.ref = ""))

\* The body of the loop up to the appends, taking any flex value.
SplitContainer_item_any_flex(item) ==
    IF item.tuple
    THEN IF Len(item.rest) = 1
         THEN <<"", Plain(item.kind, item.ref), item.rest[1]>>
         ELSE <<"ValueError", ItemNone, 0>>
    ELSE <<"", item, 1>>

\* The body of the loop up to the appends: the widget and the flex value of
\* an item, or the ValueError it is rejected with.
SplitContainer_item(item) ==
    IF item.tuple
    THEN IF Len(item.rest) = 1
         THEN IF item.rest[1] <= 0
              THEN <<"ValueError", ItemNone, 0>>
              ELSE <<"", Plain(item.kind, item.ref), item.rest[1]>>
         ELSE <<"ValueError", ItemNone, 0>>
    ELSE <<"", item, 1>>

\* The for loop of the content setter from item i on, and what follows it;
\* _content and flex are the lists built so far. A string has no app to
\* assign and no _impl to hand to the peer: AttributeError.
RECURSIVE SplitContainer_content_loop(_, _, _, _, _)
SplitContainer_content_loop(s, items, i, _content, flex) ==
    IF i > Len(items)
    THEN IF \E j \in 1..Len(_content) : _content[j].kind = "str"
         THEN SplitContainerRaise(s, "AttributeError")
         ELSE [s EXCEPT
                  !.impl_content =
                      Some([content |->
                                [j \in 1..Len(_content) |->
                                    IF _content[j].kind = "None"
                                    THEN None
                                    ELSE impl_of(_content[j].ref)],
                            flex |-> flex]),
                  !._content =
                      [j \in 1..Len(_content) |->
                          IF _content[j].kind = "None"
                          THEN None
                          ELSE Some(_content[j].ref)]]
    ELSE LET item == SplitContainer_item(items[i])
             widget == item[2]
             flex_value == item[3]
         IN  IF item[1] # ""
             THEN SplitContainerRaise(s, item[1])
             ELSE IF truthy(widget)
                  THEN IF widget.kind = "str"
                       THEN SplitContainerRaise(s, "AttributeError")
                       ELSE SplitContainer_content_loop(
                                Widget_window_set(
                                    Widget_app_set(s, widget.ref, s.app),
                                    widget.ref, s.window),
                                items, i + 1, Append(_content, widget),
                                Append(flex, flex_value))
                  ELSE SplitContainer_content_loop(
                           s, items, i + 1, Append(_content, widget),
                           Append(flex, flex_value))

\* SplitContainer.content (setter)
SplitContainer_content_set(s, content) ==
    IF ~content.sized \/ Len(content.items) # 2
    THEN SplitContainerRaise(s, "ValueError")
    ELSE SplitContainer_content_loop(s, content.items, 1, <<>>, <<>>)

\* The loop of the app setter over self.content from panel i on.
RECURSIVE SplitContainer_app_loop(_, _, _)
SplitContainer_app_loop(s, app, i) ==
    IF i > Len(s._content)
    THEN s
    ELSE SplitContainer_app_loop(
             IF s._content[i] # None
             THEN Widget_app_set(s, s._content[i][1], app)
             ELSE s,
             app, i + 1)

\* SplitContainer.app (setter)
SplitContainer_app_set(s, app) ==
    SplitContainer_app_loop([s EXCEPT !.app = app], app, 1)

\* The loop of the window setter over self._content from panel i on.
RECURSIVE SplitContainer_window_loop(_, _, _)
SplitContainer_window_loop(s, window, i) ==
    IF i > Len(s._content)
    THEN s
    ELSE SplitContainer_window_loop(
             IF s._content[i] # None
             THEN Widget_window_set(s, s._content[i][1], window)
             ELSE s,
             window, i + 1)

\* SplitContainer.window (setter) that keeps the window to itself.
SplitContainer_window_set_alone(s, window) ==
    [s EXCEPT !.window = window]

\* SplitContainer.window (setter)
SplitContainer_window_set(s, window) ==
    SplitContainer_window_loop([s EXCEPT !.window = window], window, 1)

\* splitcontainer.content = content
SplitContainerContent ==
    \E content \in Contents :
        splitcontainer' =
            SplitContainer_content_set(
                SplitContainerAssign(splitcontainer, "content"), content)

\* splitcontainer.content = content, the content assigned put on record;
\* one assignment is on record at a time.
SplitContainerContentRecorded ==
    \E content \in Contents :
        /\ assigned = None
        /\ splitcontainer' =
               SplitContainer_content_set(
                   SplitContainerAssign(splitcontainer, "content"), content)
        /\ assigned' = Some(content)

\* splitcontainer.app = app
SplitContainerApp ==
    \E app \in Apps :
        splitcontainer' =
            SplitContainer_app_set(
                SplitContainerAssign(splitcontainer, "app"), app)

\* splitcontainer.window = window
SplitContainerWindow ==
    \E window \in Windows :
        splitcontainer' =
            SplitContainer_window_set(
                SplitContainerAssign(splitcontainer, "window"), window)

\* ----------------------------------------------------------- the widgets
\* The widgets as their constructors leave them.
InitWidgets ==
    /\ slider = NewSlider
    /\ detailedlist = NewDetailedList
    /\ splitcontainer = NewSplitContainer
    /\ assigned = None

\* ------------------------------------------------------- the specification
\* Geolocation.__init__: both queues empty; the native manager reports the
\* authorization the user gave earlier and the location it has cached.
InitGeolocation ==
    /\ nativeUpdating = FALSE
    /\ authorizationAsked = FALSE
    /\ locationAsked = FALSE
    /\ permission_requests = <<>>
    /\ location_requests = <<>>
    /\ cells = [c \in Cells |-> NewCell]
    /\ on_change_calls = 0
    /\ batches = 0
    /\ last = Did("init", NoException, {}, 0, {}, <<>>, None)
    /\ delivered = <<>>

\* The location service of an application whose backend is resolved later:
\* a macOS process with nothing in its environment.
Init ==
    /\ authorizationStatus \in Statuses
    /\ nativeLocation \in {None} \cup {Some(Cached(l)) : l \in Locations}
    /\ InitGeolocation
    /\ TOGA_BACKEND = None
    /\ entry_points = <<>>
    /\ current_platform = get_current_platform(FALSE, "darwin")
    /\ import_failure = None
    /\ factory_cache = None
    /\ factory_call = NoCall
    /\ returned = {}
    /\ InitWidgets

Next ==
    \/ Location_request_permission /\ UNCHANGED otherVars
    \/ Location_request_background_permission /\ UNCHANGED otherVars
    \/ Location_current_location /\ UNCHANGED otherVars
    \/ Location_start_tracking /\ UNCHANGED otherVars
    \/ Location_stop_tracking /\ UNCHANGED otherVars
    \/ locationManagerDidChangeAuthorization /\ UNCHANGED otherVars
    \/ locationManager_didUpdateLocations /\ UNCHANGED otherVars
    \/ locationManager_didFailWithError /\ UNCHANGED otherVars

Spec == Init /\ [][Next]_vars

\* The native manager answers what it was asked: a requestAlwaysAuthorization
\* is followed by the authorization callback, and a requestLocation or a
\* running startUpdatingLocation by a location update or a location error.
NativeCallbacksFire ==
    /\ WF_vars(locationManagerDidChangeAuthorization /\ UNCHANGED otherVars)
    /\ WF_vars(/\ \/ locationManager_didUpdateLocations
                  \/ locationManager_didFailWithError
               /\ UNCHANGED otherVars)

SpecLive == Init /\ [][Next]_vars /\ NativeCallbacksFire

\* One-shot requests and tracking, as the tracking tests drive them, with
\* each delivered batch kept until the next handler runs.
NextBatch ==
    \/ Location_current_location /\ delivered' = <<>> /\ UNCHANGED <<platformVars, widgetVars>>
    \/ Location_start_tracking /\ delivered' = <<>> /\ UNCHANGED <<platformVars, widgetVars>>
    \/ Location_stop_tracking /\ delivered' = <<>> /\ UNCHANGED <<platformVars, widgetVars>>
    \/ batch_didUpdateLocations /\ UNCHANGED <<platformVars, widgetVars>>

SpecBatch == Init /\ [][NextBatch]_vars

\* A process about to resolve its backend: any environment, any installed
\* backends, any platform, nothing cached; the location service is idle.
InitPlatform ==
    /\ authorizationStatus = "NotDetermined"
    /\ nativeLocation = None
    /\ InitGeolocation
    /\ TOGA_BACKEND \in OverrideValues
    /\ entry_points \in Installations
    /\ \E getandroidapilevel \in BOOLEAN, sys_platform \in SysPlatforms :
          current_platform = get_current_platform(getandroidapilevel,
                                                  sys_platform)
    /\ import_failure \in ImportFailures
    /\ factory_cache = None
    /\ factory_call = NoCall
    /\ returned = {}
    /\ InitWidgets

NextPlatform ==
    \/ get_platform_factory /\ UNCHANGED <<locationVars, delivered, widgetVars>>
    \/ setenv /\ UNCHANGED <<locationVars, delivered, widgetVars>>
    \/ install /\ UNCHANGED <<locationVars, delivered, widgetVars>>

SpecPlatform == InitPlatform /\ [][NextPlatform]_vars

\* The altitudes a location can carry: below, at and above the ellipsoid.
SurveyAltitudes == {-3, 0, 5}

\* A native CLLocation with any of these altitudes.
SurveyLocations ==
    [coordinate : Coordinates, verticalAccuracy : VerticalAccuracies,
     ellipsoidalAltitude : SurveyAltitudes]

\* TogaLocationDelegate.locationManager_didUpdateLocations_, called with
\* one such location.
survey_didUpdateLocations ==
    \E location \in SurveyLocations :
        /\ didUpdateLocations(<<location>>)
        /\ delivered' = <<location>>

\* One-shot requests and tracking, every update one location of any
\* altitude and vertical accuracy.
NextAltitude ==
    \/ Location_current_location /\ delivered' = <<>> /\ UNCHANGED <<platformVars, widgetVars>>
    \/ Location_start_tracking /\ delivered' = <<>> /\ UNCHANGED <<platformVars, widgetVars>>
    \/ Location_stop_tracking /\ delivered' = <<>> /\ UNCHANGED <<platformVars, widgetVars>>
    \/ survey_didUpdateLocations /\ UNCHANGED <<platformVars, widgetVars>>

SpecAltitude == Init /\ [][NextAltitude]_vars

\* What entry_points(group="toga.backends") can report of the installed
\* backends: each of them any number of times.
Reports ==
    UNION {[1..n -> Range(EntryPointOrder)] : n \in 0..MaxReports}

\* A process that resolves its backend by discovery: TOGA_BACKEND is not
\* set, the entry points are any report.
InitDiscovery ==
    /\ authorizationStatus = "NotDetermined"
    /\ nativeLocation = None
    /\ InitGeolocation
    /\ TOGA_BACKEND = None
    /\ entry_points \in Reports
    /\ \E getandroidapilevel \in BOOLEAN, sys_platform \in SysPlatforms :
          current_platform = get_current_platform(getandroidapilevel,
                                                  sys_platform)
    /\ import_failure \in ImportFailures
    /\ factory_cache = None
    /\ factory_call = NoCall
    /\ returned = {}
    /\ InitWidgets

NextDiscovery ==
    get_platform_factory /\ UNCHANGED <<locationVars, delivered, widgetVars>>

SpecDiscovery == InitDiscovery /\ [][NextDiscovery]_vars

\* An application whose location service is idle, its widgets built.
InitApplication ==
    /\ Init
    /\ authorizationStatus = "NotDetermined"
    /\ nativeLocation = None

\* An application that assigns to the properties of a slider.
NextSlider ==
    \/ SliderValue /\ UNCHANGED sliderFrame
    \/ SliderRange /\ UNCHANGED sliderFrame
    \/ SliderTickCount /\ UNCHANGED sliderFrame
    \/ SliderTickValue /\ UNCHANGED sliderFrame
    \/ SliderOnChange /\ UNCHANGED sliderFrame

SpecSlider == InitApplication /\ [][NextSlider]_vars

\* An application that fills, replaces and scrolls a detailed list.
NextDetailedList ==
    \/ DetailedListData /\ UNCHANGED detailedlistFrame
    \/ DetailedListScrollToRow /\ UNCHANGED detailedlistFrame
    \/ DetailedListScrollToTop /\ UNCHANGED detailedlistFrame
    \/ DetailedListScrollToBottom /\ UNCHANGED detailedlistFrame
    \/ ListSourceAppend /\ UNCHANGED detailedlistFrame

SpecDetailedList == InitApplication /\ [][NextDetailedList]_vars

\* An application that fills a split container and moves it between apps
\* and windows.
NextSplitContainer ==
    \/ SplitContainerContent /\ UNCHANGED <<splitcontainerFrame, assigned>>
    \/ SplitContainerApp /\ UNCHANGED <<splitcontainerFrame, assigned>>
    \/ SplitContainerWindow /\ UNCHANGED <<splitcontainerFrame, assigned>>

SpecSplitContainer == InitApplication /\ [][NextSplitContainer]_vars

\* The same application, the content it assigns put on record until the
\* container is given an app or a window again.
NextContent ==
    \/ SplitContainerContentRecorded /\ UNCHANGED splitcontainerFrame
    \/ SplitContainerApp /\ assigned' = None /\ UNCHANGED splitcontainerFrame
    \/ SplitContainerWindow /\ assigned' = None
           /\ UNCHANGED splitcontainerFrame

SpecContent == InitApplication /\ [][NextContent]_vars

\* ------------------------------------------------------------- the claims
LatLngOf(location) == LatLng(location.coordinate[1], location.coordinate[2])

C2_LocationErrorFailsAll ==
    (last.op = "location_failed" /\ last.drained # {}) =>
        /\ \A c \in last.drained :
              /\ cells[c].state = "exception"
              /\ cells[c].value =
                    Some(RuntimeError("Unable to obtain a location", last.arg[1]))
              /\ cells[c].sets = 1
        /\ location_requests = <<>>
        /\ last.listener = <<>>
        /\ on_change_calls = batches

\* Two requests were pending when the failure arrived.
C2_Witness ==
    /\ last.op = "location_failed"
    /\ Cardinality(last.drained) >= 2

\* C3: once the native authorization callback has fired, a
\* request_background_permission() result is whether background permission
\* is held: False when foreground permission is granted and background
\* permission was refused, True only when it was granted.
C3_BackgroundResultIsBackgroundPermission ==
    last.op = "authorization_changed" =>
        \A c \in last.drained :
            cells[c].kind = "background" =>
                /\ cells[c].state = "result"
                /\ cells[c].value = Some(Bool(has_background_permission))

\* C4: request_background_permission() called while foreground permission
\* is not granted (status undetermined or denied) fails at once with a
\* PermissionError, whatever was called before: no result cell is created or
\* enqueued and no native authorization request is issued.
C4_BackgroundNeedsForeground ==
    [][(/\ last'.op = "request_background_permission"
        /\ authorizationStatus \in {"NotDetermined", "Denied"})
       => /\ last'.raised = PermissionError
          /\ last'.cell = 0
          /\ last'.native = {}
          /\ UNCHANGED <<nativeVars, peerVars, listenerVars>>]_vars

\* The precondition failed after an earlier permission request was denied.
C4_Witness ==
    /\ last.op = "request_background_permission"
    /\ last.raised = PermissionError
    /\ authorizationStatus = "Denied"
    /\ cells[1].kind = "permission"
    /\ cells[1].value = Some(Bool(FALSE))

C6_OneShotDoesNotNotify ==
    /\ (last.op = "location_updated" /\ last.drained # {} /\ ~nativeUpdating) =>
           /\ \A c \in last.drained :
                 cells[c].value = Some(LatLngOf(last.arg[1]))
           /\ last.listener = <<>>
    /\ (/\ last.op = "current_location"
        /\ last.cell # 0
        /\ last.native = {}
        /\ ~nativeUpdating) =>
           /\ cells[last.cell].value = Some(LatLngOf(nativeLocation[1]))
           /\ last.listener = <<>>

\* C7: request_permission() called while the status is already foreground-
\* or background-granted completes with success at once: its cell holds
\* True, no native authorization request is issued, and nothing is added to
\* the pending permission queue.
C7_GrantedPermissionIsImmediate ==
    [][(/\ last'.op = "request_permission"
        /\ authorizationStatus \in {"AuthorizedWhenInUse", "AuthorizedAlways"})
       => /\ last'.raised = NoException
          /\ last'.native = {}
          /\ last'.cell # 0
          /\ cells'[last'.cell].state = "result"
          /\ cells'[last'.cell].value = Some(Bool(TRUE))
          /\ last'.cell \notin Range(permission_requests')
          /\ UNCHANGED <<nativeVars, permission_requests, location_requests,
                         listenerVars>>]_vars

\* request_permission() answered at once with foreground permission held,
\* while a background request is still waiting in the queue.
C7_Witness ==
    /\ last.op = "request_permission"
    /\ last.native = {}
    /\ last.cell # 0
    /\ authorizationStatus = "AuthorizedWhenInUse"
    /\ permission_requests # <<>>

\* C8: with location permission denied, current_location(),
\* start_tracking() and stop_tracking() each raise PermissionError, make no
\* native call and enqueue no result cell; with permission undetermined or
\* granted they raise no PermissionError.
C8_DeniedRaisesPermissionError ==
    [][last'.op \in {"current_location", "start_tracking", "stop_tracking"}
       => IF authorizationStatus = "Denied"
          THEN /\ last'.raised = PermissionError
               /\ last'.native = {}
               /\ last'.cell = 0
               /\ UNCHANGED <<nativeVars, peerVars, listenerVars>>
          ELSE last'.raised # PermissionError]_vars

\* stop_tracking() raised PermissionError under a denied permission.
C8_Witness ==
    /\ last.op = "stop_tracking"
    /\ last.raised = PermissionError
    /\ authorizationStatus = "Denied"

\* The statement of C9 as claimed: stop_tracking() called while the native
\* manager is not updating never raises.
C9_StopNeverRaises ==
    (last.op = "stop_tracking" /\ ~last.tracking) => last.raised = NoException

\* C9, amended: stop_tracking() called without a prior start_tracking()
\* raises nothing while permission is undetermined or granted (with
\* permission denied it raises PermissionError); in either case stopping
\* when already stopped changes neither the pending queues, the result
\* cells, the native manager's state nor what the listener was told.
C9_StopWhenStoppedIsNoOp ==
    [][(last'.op = "stop_tracking" /\ ~nativeUpdating)
       => /\ authorizationStatus # "Denied" => last'.raised = NoException
          /\ authorizationStatus = "Denied" => last'.raised = PermissionError
          /\ UNCHANGED <<nativeVars, peerVars, listenerVars>>]_vars

\* stop_tracking() with nothing started, a one-shot request pending.
C9_Witness ==
    /\ last.op = "stop_tracking"
    /\ ~last.tracking
    /\ last.raised = NoException
    /\ location_requests # <<>>

C11_OnlyLastOfBatch ==
    (last.op = "location_updated" /\ Len(delivered) >= 2) =>
        LET newest == delivered[Len(delivered)]
        IN  /\ last.arg = Some(newest)
            /\ \A c \in last.drained :
                  cells[c].value = Some(LatLngOf(newest))
            /\ Len(last.listener) = 1
            /\ last.listener[1] =
                  [location |-> LatLngOf(newest), altitude |-> altitude_of(newest)]
            /\ nativeLocation = Some(Cached(newest))

\* A batch of two different places answered a pending one-shot request.
C11_Witness ==
    /\ last.op = "location_updated"
    /\ Len(delivered) = 2
    /\ delivered[1].coordinate # delivered[2].coordinate
    /\ last.drained # {}

\* C12: in every interleaving of request_permission,
\* request_background_permission and current_location calls with the three
\* native callbacks, each result cell is settled at most once, and a settled
\* cell is in no pending queue: the queues hold pending cells only, each
\* once, and a cell not yet settled has never been set.
C12_SingleAssignment ==
    LET queued == Range(permission_requests) \cup Range(location_requests)
    IN  /\ \A c \in Cells :
              /\ cells[c].sets <= 1
              /\ cells[c].state \in {"result", "exception"} =>
                    (cells[c].sets = 1 /\ c \notin queued)
              /\ c \in queued =>
                    (cells[c].state = "pending" /\ cells[c].sets = 0)
        /\ Cardinality(Range(permission_requests)) = Len(permission_requests)
        /\ Cardinality(Range(location_requests)) = Len(location_requests)
        /\ Range(permission_requests) \cap Range(location_requests) = {}

\* One request failed by the native error, a later one waiting in the queue.
C12_Witness ==
    \E c, d \in Cells :
        /\ cells[c].state = "exception"
        /\ d \in Range(location_requests)
        /\ cells[d].state = "pending"

\* C13: provided the native manager eventually fires its callbacks, every
\* result cell that is pending (created by a call and put in a queue) is
\* eventually settled, with a result or an exception.
C13_EnqueuedIsEventuallySettled ==
    \A c \in Cells :
        (cells[c].state = "pending") ~>
            (cells[c].state \in {"result", "exception"})

\* A callback has settled a cell that was waiting in a queue while another
\* request is still waiting for its own callback.
C13_Witness ==
    \E c, d \in Cells :
        /\ c \in last.drained
        /\ cells[c].state \in {"result", "exception"}
        /\ d \in Range(permission_requests) \cup Range(location_requests)
        /\ cells[d].state = "pending"

\* C14: a native delegate callback (authorization changed, location
\* updated, location failed) is never executed inline against the pending
\* queues: the delegate's own step hands the work to the event loop and
\* leaves both queues and every result cell as they were.
C14_DelegateNeverRunsInline ==
    [][last'.op \in {"authorization_changed", "location_updated",
                      "location_failed"}
            => UNCHANGED <<permission_requests, location_requests, cells>>]_vars

\* C15: current_location() called with permission while the native manager
\* has a cached location settles the caller's cell in the call itself with
\* the cached coordinates, makes no native call and leaves the pending
\* location queue as it was; with no cached location the cell is appended
\* to the queue, stays pending, and the one native call is requestLocation.
C15_CachedLocationIsSynchronous ==
    [][(last'.op = "current_location" /\ has_permission(TRUE)) =>
          LET result == last'.cell
          IN  /\ last'.raised = NoException
              /\ result \in Cells
              /\ cells[result].state = "unused"
              /\ IF nativeLocation # None
                 THEN /\ cells'[result].state = "result"
                      /\ cells'[result].value =
                            Some(LatLng(nativeLocation[1].coordinate[1],
                                        nativeLocation[1].coordinate[2]))
                      /\ last'.native = {}
                      /\ location_requests' = location_requests
                      /\ result \notin Range(location_requests')
                      /\ locationAsked' = locationAsked
                 ELSE /\ cells'[result].state = "pending"
                      /\ location_requests' = Append(location_requests, result)
                      /\ last'.native = {"requestLocation"}
                      /\ locationAsked'
              /\ \A c \in Cells \ {result} : cells'[c] = cells[c]
              /\ UNCHANGED <<permission_requests, nativeLocation,
                             on_change_calls>>]_vars

\* A one-shot request answered from the location a tracking update cached,
\* after an earlier request had to wait for that update.
C15_Witness ==
    /\ last.op = "current_location"
    /\ last.native = {}
    /\ last.cell \in Cells
    /\ cells[last.cell].state = "result"
    /\ batches >= 1
    /\ \E c \in Cells \ {last.cell} :
          cells[c].kind = "location" /\ cells[c].sets = 1
    /\ location_requests = <<>>

\* C16: the altitude handed to the change listener is None whenever the
\* native vertical accuracy is zero or negative, whatever the coordinate and
\* the native altitude; it is the native altitude only when the vertical
\* accuracy is strictly positive; a reported zero is a native altitude of
\* zero with a positive accuracy, never a stand-in for an absent altitude.
C16_AltitudeNeedsPositiveAccuracy ==
    last.op = "location_updated" =>
        LET location == last.arg[1]
            altitude == last.listener[1].altitude
        IN  /\ Len(last.listener) = 1
            /\ location.verticalAccuracy <= 0 => altitude = None
            /\ location.verticalAccuracy > 0 =>
                  altitude = Some(location.ellipsoidalAltitude)
            /\ altitude = Some(0) =>
                  (location.verticalAccuracy > 0
                      /\ location.ellipsoidalAltitude = 0)

\* The listener is told of a location whose native altitude is zero but
\* whose vertical accuracy is zero as well.
C16_Witness ==
    /\ last.op = "location_updated"
    /\ delivered # <<>>
    /\ delivered[1].verticalAccuracy = 0
    /\ delivered[1].ellipsoidalAltitude = 0
    /\ last.listener[1].altitude = None

\* A get_platform_factory() call that runs the function body.
Resolves ==
    /\ factory_call'.seq # factory_call.seq
    /\ factory_cache = None

\* C17: with TOGA_BACKEND not set, a resolution that finds no installed
\* backend raises RuntimeError("No Toga backend could be loaded.") and
\* returns nothing; one that finds exactly one installed backend (however
\* often it is reported) selects that backend whether or not its name is
\* the current platform, and returns its factory when its import succeeds.
C17_NoneRaisesOneIsSelected ==
    [][(Resolves /\ TOGA_BACKEND = None) =>
          LET installed == Range(entry_points)
          IN  /\ installed = {} =>
                    /\ factory_call'.outcome = "raised"
                    /\ factory_call'.exception = "RuntimeError"
                    /\ factory_call'.message = "No Toga backend could be loaded."
                    /\ factory_call'.selected = <<>>
                    /\ factory_cache' = None
              /\ \A backend \in installed :
                    installed = {backend} =>
                        /\ factory_call'.selected = <<backend>>
                        /\ factory_call'.message = ""
                        /\ import_module(backend.value).raised = "" =>
                              /\ factory_call'.outcome = "returned"
                              /\ factory_call'.factory = backend.value
                              /\ factory_cache' = Some(backend.value)]_vars

\* The one installed backend, reported twice and not of the current
\* platform, has been selected and its factory returned.
C17_Witness ==
    /\ factory_call.computed
    /\ factory_call.outcome = "returned"
    /\ TOGA_BACKEND = None
    /\ Len(entry_points) = 2
    /\ \E backend \in Range(EntryPointOrder) :
          /\ Range(entry_points) = {backend}
          /\ factory_call.selected = <<backend>>
          /\ Some(backend.name) # current_platform

\* C18: with TOGA_BACKEND not set and two or more distinct installed
\* backends, a resolution keeps the backends whose name is the current
\* platform. Exactly one: it is selected, and its factory returned when its
\* import succeeds. None (also when no platform was detected): a
\* RuntimeError that lists every installed backend and the platform. More
\* than one: a RuntimeError that names every one of them, and none is
\* selected.
C18_SeveralBackendsFilteredByPlatform ==
    [][(Resolves /\ TOGA_BACKEND = None
            /\ Cardinality(Range(entry_points)) >= 2) =>
          LET installed == Range(entry_points)
              matches ==
                  {backend \in installed : Some(backend.name) = current_platform}
          IN  /\ \A backend \in matches :
                    matches = {backend} =>
                        /\ factory_call'.selected = <<backend>>
                        /\ factory_call'.message = ""
                        /\ import_module(backend.value).raised = "" =>
                              /\ factory_call'.outcome = "returned"
                              /\ factory_call'.factory = backend.value
              /\ matches = {} =>
                    /\ factory_call'.outcome = "raised"
                    /\ factory_call'.exception = "RuntimeError"
                    /\ Range(factory_call'.listed) = installed
                    /\ factory_call'.platform = <<current_platform>>
                    /\ factory_call'.selected = <<>>
                    /\ factory_cache' = None
              /\ Cardinality(matches) > 1 =>
                    /\ factory_call'.outcome = "raised"
                    /\ factory_call'.exception = "RuntimeError"
                    /\ factory_call'.message =
                          "Multiple candidate toga backends found"
                    /\ Range(factory_call'.listed) = matches
                    /\ factory_call'.selected = <<>>
                    /\ factory_cache' = None]_vars

\* Two backends of the current platform are installed and the resolution
\* has refused to choose between them.
C18_Witness ==
    /\ factory_call.computed
    /\ factory_call.outcome = "raised"
    /\ TOGA_BACKEND = None
    /\ Len(factory_call.listed) = 2
    /\ \A i \in 1..2 : Some(factory_call.listed[i].name) = current_platform
    /\ Range(entry_points) = Range(factory_call.listed)
    /\ factory_cache = None

\* A resolution made while TOGA_BACKEND names a location.
ResolvesOverride ==
    /\ Resolves
    /\ TOGA_BACKEND # None
    /\ TOGA_BACKEND[1] # ""

\* C19: when TOGA_BACKEND is set, the factory is loaded from the location it
\* names and discovery selects nothing, whatever is installed; any failure
\* to load it raises a RuntimeError that names the location and the cause,
\* and no factory is returned.
C19_AnyOverrideFailureIsRuntimeError ==
    [][ResolvesOverride =>
          LET imported == import_module(TOGA_BACKEND[1])
          IN  /\ factory_call'.selected = <<>>
              /\ imported.raised = "" =>
                    /\ factory_call'.outcome = "returned"
                    /\ factory_call'.factory = TOGA_BACKEND[1]
              /\ imported.raised # "" =>
                    /\ factory_call'.outcome = "raised"
                    /\ factory_call'.exception = "RuntimeError"
                    /\ factory_call'.location = TOGA_BACKEND[1]
                    /\ factory_call'.cause = imported.raised
                    /\ factory_call'.factory = ""
                    /\ factory_cache' = None]_vars

\* C19 as amended: when TOGA_BACKEND names a location, the factory is
\* loaded from it and discovery selects nothing, whatever is installed. A
\* ModuleNotFoundError of the import raises a RuntimeError that names the
\* location and the cause (and lists the installed backends); any other
\* exception of the import reaches the caller unchanged. Either way no
\* factory is returned and none is cached.
C19_OverrideModuleNotFoundIsRuntimeError ==
    [][ResolvesOverride =>
          LET imported == import_module(TOGA_BACKEND[1])
          IN  /\ factory_call'.selected = <<>>
              /\ imported.raised = "" =>
                    /\ factory_call'.outcome = "returned"
                    /\ factory_call'.factory = TOGA_BACKEND[1]
                    /\ factory_cache' = Some(TOGA_BACKEND[1])
              /\ imported.raised = "ModuleNotFoundError" =>
                    /\ factory_call'.exception = "RuntimeError"
                    /\ factory_call'.location = TOGA_BACKEND[1]
                    /\ factory_call'.cause = "ModuleNotFoundError"
                    /\ Range(factory_call'.listed) = Range(entry_points)
              /\ imported.raised \notin {"", "ModuleNotFoundError"} =>
                    /\ factory_call'.exception = imported.raised
                    /\ factory_call'.location = ""
              /\ imported.raised # "" =>
                    /\ factory_call'.outcome = "raised"
                    /\ factory_call'.factory = ""
                    /\ factory_cache' = None
                    /\ returned' = returned]_vars

\* The module TOGA_BACKEND names exists but its import raises an
\* ImportError, which the call has passed on, with a backend installed that
\* discovery alone would have selected.
C19_Witness ==
    /\ factory_call.computed
    /\ factory_call.outcome = "raised"
    /\ factory_call.exception = "ImportError"
    /\ TOGA_BACKEND = Some("toga_dummy")
    /\ Cardinality(Range(entry_points)) = 1
    /\ import_module(entry_points[1].value).raised = ""
    /\ factory_cache = None

\* C20: resolution is computed once and cached for the life of the process:
\* across any sequence of get_platform_factory() calls, with TOGA_BACKEND
\* and the installed backends changing between them, every call returns the
\* same factory, at most one is ever provided, and after a call has run the
\* resolution, returned or raised, no later call runs it again.
C20_ResolvedOnceEvenIfFailed ==
    [][factory_call'.seq # factory_call.seq =>
          /\ Cardinality(returned') <= 1
          /\ factory_call.outcome = "returned" =>
                /\ factory_call'.outcome = "returned"
                /\ factory_call'.factory = factory_call.factory
          /\ factory_call.outcome # "none" => ~factory_call'.computed]_vars

\* C20 as amended: a returned factory is cached for the life of the
\* process. Once a call has returned a factory, every later call returns
\* that factory without running the resolution, whatever TOGA_BACKEND and
\* the installed backends have become, and so at most one factory is ever
\* returned. A call whose resolution raised caches nothing: the next call
\* runs the resolution again, on the environment it then finds.
C20_ReturnedFactoryIsMemoized ==
    [][factory_call'.seq # factory_call.seq =>
          /\ Cardinality(returned') <= 1
          /\ factory_call.outcome = "returned" =>
                /\ factory_call'.outcome = "returned"
                /\ factory_call'.factory = factory_call.factory
                /\ ~factory_call'.computed
                /\ returned' = returned
          /\ returned = {} =>
                /\ factory_call'.computed
                /\ factory_call'.outcome = resolve.outcome
                /\ factory_call'.factory = resolve.factory
                /\ factory_call'.exception = resolve.exception
          /\ factory_call'.outcome = "raised" =>
                (returned' = {} /\ factory_cache' = None)
          /\ factory_call'.outcome = "returned" =>
                factory_cache' = Some(factory_call'.factory)]_vars

\* A call has returned the cached factory although a resolution on the
\* present environment would raise.
C20_Witness ==
    /\ factory_call.outcome = "returned"
    /\ ~factory_call.computed
    /\ factory_cache = Some(factory_call.factory)
    /\ resolve.outcome = "raised"

\* C21: the backends discovery reports are de-duplicated by name and value
\* before they are counted. One backend reported two or more times is the
\* exactly-one case: it is selected whatever the platform. Several reports
\* of the one backend of the current platform, next to backends of other
\* platforms, select it and never raise the ambiguity error. No error
\* message lists a backend twice.
C21_DuplicateReportsCountOnce ==
    [][Resolves =>
          LET installed == Range(entry_points)
              matches ==
                  {backend \in installed : Some(backend.name) = current_platform}
          IN  /\ \A backend \in installed :
                    (installed = {backend} \/ matches = {backend}) =>
                        /\ factory_call'.selected = <<backend>>
                        /\ factory_call'.message = ""
                        /\ import_module(backend.value).raised = "" =>
                              factory_call'.factory = backend.value
              /\ Cardinality(Range(factory_call'.listed))
                    = Len(factory_call'.listed)]_vars

\* The backend of the current platform was reported twice, next to a
\* backend of another platform, and has been selected.
C21_Witness ==
    /\ factory_call.computed
    /\ factory_call.outcome = "returned"
    /\ Len(entry_points) = 3
    /\ Cardinality(Range(entry_points)) = 2
    /\ \E backend \in Range(entry_points) :
          /\ factory_call.selected = <<backend>>
          /\ Some(backend.name) = current_platform
          /\ Len(SelectSeq(entry_points, LAMBDA e : e = backend)) = 2

\* C27: when the authorization callback fires, every permission request
\* then pending gets the same boolean as its result; a denial is the result
\* False, never an exception; and the permission queue is empty afterwards.
C27_PermissionRequestsResolvedAlike ==
    last.op = "authorization_changed" =>
        /\ permission_requests = <<>>
        /\ \E granted \in BOOLEAN :
              \A c \in last.drained :
                  /\ cells[c].state = "result"
                  /\ cells[c].value = Some(Bool(granted))
        /\ authorizationStatus = "Denied" =>
              \A c \in last.drained : cells[c].value = Some(Bool(FALSE))

\* The user has denied while two requests were waiting.
C27_Witness ==
    /\ last.op = "authorization_changed"
    /\ authorizationStatus = "Denied"
    /\ Cardinality(last.drained) = 2
    /\ \A c \in last.drained : cells[c].value = Some(Bool(FALSE))

\* An assignment to value, range, tick_count or tick_value of the slider.
SliderAssigned ==
    /\ slider'.seq # slider.seq
    /\ slider'.op \in {"value", "range", "tick_count", "tick_value"}

\* C22: an assignment to value, range, tick_count or tick_value that
\* changes the slider's value invokes the installed on_change handler
\* exactly once; one that leaves the value as it was, or is rejected with
\* ValueError, invokes it not at all; and the handler installed before the
\* assignment is the handler installed after it.
C22_OnChangeOncePerChange ==
    [][SliderAssigned =>
          /\ slider'._on_change = slider._on_change
          /\ IF /\ slider'.raised = ""
                /\ slider'.value # slider.value
                /\ slider._on_change # None
             THEN slider'.calls = <<slider._on_change[1]>>
             ELSE slider'.calls = <<>>]_vars

\* A new range has moved the value of a discrete slider and the handler has
\* been told, once.
C22_Witness ==
    /\ slider.op = "range"
    /\ slider.tick_count # None
    /\ slider._on_change = Some("on_change_2")
    /\ slider.calls = <<"on_change_2">>

\* C23: whatever is assigned to range, value, tick_count and tick_value,
\* min < max and min <= value <= max; a new range that excludes the value
\* moves it to the nearer of min and max; an assignment rejected with
\* ValueError leaves range, value and tick_count as they were.
C23_ValueStaysInRange ==
    /\ [](/\ Slider_min(slider) < Slider_max(slider)
          /\ Slider_min(slider) <= slider.value
          /\ slider.value <= Slider_max(slider))
    /\ [][SliderAssigned =>
             /\ slider'.raised # "" =>
                   /\ slider'.range = slider.range
                   /\ slider'.value = slider.value
                   /\ slider'.tick_count = slider.tick_count
             /\ (slider'.op = "range" /\ slider'.raised = "") =>
                   /\ slider.value < Slider_min(slider') =>
                         slider'.value = Slider_min(slider')
                   /\ slider.value > Slider_max(slider') =>
                         slider'.value = Slider_max(slider')]_vars

\* The distance between two values.
Distance(a, b) == IF a >= b THEN a - b ELSE b - a

\* The value of discrete slider s is a tick, and no tick is nearer to the
\* value asked for.
OnNearestTick(s, asked) ==
    LET n == s.tick_count[1]
        tick(k) == Slider_min(s) + k * Slider_tick_step(s)[1]
    IN  /\ \E k \in 0..(n - 1) :
              /\ s.value = tick(k)
              /\ Slider_tick_value(s) = Some(k + 1)
        /\ \A k \in 0..(n - 1) :
              Distance(s.value, asked) <= Distance(tick(k), asked)

\* C24: while tick_count is an integer n >= 2 the value is on a tick,
\* min + k * tick_step with k in 0..n-1, and tick_value is k + 1; an
\* assignment to value, range or tick_count leaves the value on the tick
\* nearest to what was asked for (the value assigned, or the old value
\* clipped to the range); and tick_value = t with 1 <= t <= n reads back
\* as t.
C24_DiscreteValueIsOnTick ==
    /\ [](slider.tick_count # None =>
            /\ slider.tick_count[1] >= 2
            /\ OnNearestTick(slider, slider.value))
    /\ [][(SliderAssigned /\ slider'.raised = ""
                /\ slider'.tick_count # None) =>
             /\ \A value \in SliderValues :
                   slider' = Slider_value_set(SliderAssign(slider, "value"),
                                              value)
                       => OnNearestTick(slider', value)
             /\ slider'.op = "tick_count" =>
                   OnNearestTick(slider', slider.value)
             /\ slider'.op = "range" =>
                   OnNearestTick(slider',
                       IF slider.value < Slider_min(slider')
                       THEN Slider_min(slider')
                       ELSE IF slider.value > Slider_max(slider')
                            THEN Slider_max(slider')
                            ELSE slider.value)
             /\ \A t \in 1..slider'.tick_count[1] :
                   slider' = Slider_tick_value_set(
                                 SliderAssign(slider, "tick_value"), Some(t))
                       => Slider_tick_value(slider') = Some(t)]_vars

\* The row the documentation of scroll_to_row names: row itself, or the
\* nth-last row for a negative row, kept within the rows there are.
ExistingRow(len, row) ==
    IF row >= 0
    THEN IF row < len THEN row ELSE len - 1
    ELSE IF len + row > 0 THEN len + row ELSE 0

\* C25: whenever scroll_to_row, scroll_to_top or scroll_to_bottom hands a
\* row index to the peer, the index is one of 0..len(data)-1:
\* scroll_to_row(row) hands row clamped to the last row for row >= 0 and
\* the nth-last row clamped to row 0 for row < 0, scroll_to_top hands 0 and
\* scroll_to_bottom the last row.
C25_ScrollsToExistingRow ==
    [][(detailedlist'.seq # detailedlist.seq
            /\ detailedlist'.scrolled # None) =>
          /\ detailedlist'.scrolled[1]
                 \in 0..(DetailedList_len(detailedlist') - 1)
          /\ \A row \in ScrollRows :
                detailedlist' =
                    DetailedList_scroll_to_row(
                        DetailedListCall(detailedlist, "scroll_to_row"), row)
                    => detailedlist'.scrolled[1] =
                           ExistingRow(DetailedList_len(detailedlist), row)
          /\ detailedlist'.op = "scroll_to_top" =>
                detailedlist'.scrolled[1] = 0
          /\ detailedlist'.op = "scroll_to_bottom" =>
                detailedlist'.scrolled[1] =
                    DetailedList_len(detailedlist) - 1]_vars

\* How often the peer is registered in a list of listeners.
Registrations(listeners) ==
    Cardinality({i \in 1..Len(listeners) : listeners[i] = DetailedListImpl})

\* C30: the peer of the detailed list is registered exactly once on the
\* source on display and on no other source, so that a change of a source
\* notifies the peer only if it is the source on display.
C30_PeerListensToCurrentSourceOnly ==
    /\ \A i \in 1..Len(detailedlist.sources) :
          Registrations(detailedlist.sources[i].listeners) =
              IF i = detailedlist._data THEN 1 ELSE 0
    /\ (detailedlist.changed # 0
            /\ Registrations(detailedlist.notified) > 0) =>
          detailedlist.changed = detailedlist._data

\* An item the documentation of content allows: a widget, None, or a
\* 2-tuple of a widget or None and a flex value greater than 0.
ValidItem(item) ==
    /\ item.kind \in {"Widget", "None"}
    /\ item.tuple => (Len(item.rest) = 1 /\ item.rest[1] > 0)
ValidContent(content) ==
    /\ content.sized
    /\ Len(content.items) = 2
    /\ \A i \in 1..2 : ValidItem(content.items[i])
HasString(content) ==
    \E i \in 1..Len(content.items) : content.items[i].kind = "str"
WidgetOf(item) == IF item.kind = "None" THEN None ELSE Some(item.ref)
PeerOf(item) == IF item.kind = "None" THEN None ELSE impl_of(item.ref)
FlexOf(item) == IF item.tuple THEN item.rest[1] ELSE 1

\* What a successful assignment of content leaves behind: the two widgets
\* in order as the content, their peers and flex values with the peer.
ContentStored(s, content) ==
    /\ s._content = <<WidgetOf(content.items[1]), WidgetOf(content.items[2])>>
    /\ s.impl_content =
           Some([content |-> <<PeerOf(content.items[1]),
                               PeerOf(content.items[2])>>,
                 flex |-> <<FlexOf(content.items[1]),
                            FlexOf(content.items[2])>>])

C28_ContentSharesAppAndWindow ==
    \A i \in 1..Len(splitcontainer._content) :
        splitcontainer._content[i] # None =>
            /\ splitcontainer.widgets[splitcontainer._content[i][1]].app =
                   splitcontainer.app
            /\ splitcontainer.widgets[splitcontainer._content[i][1]].window =
                   splitcontainer.window

\* The container has been given a window while it holds two widgets and
\* has an app.
C28_Witness ==
    /\ splitcontainer.op = "window"
    /\ splitcontainer.window # None
    /\ splitcontainer.app # None
    /\ splitcontainer._content[1] # None
    /\ splitcontainer._content[2] # None

\* C29: an assignment to content that raises ValueError leaves the stored
\* content, what the peer was given and the app and window of every widget
\* as they were.
C29_RejectedContentChangesNothing ==
    [][(splitcontainer'.seq # splitcontainer.seq
            /\ splitcontainer'.op = "content"
            /\ splitcontainer'.raised = "ValueError") =>
          /\ splitcontainer'._content = splitcontainer._content
          /\ splitcontainer'.impl_content = splitcontainer.impl_content
          /\ splitcontainer'.widgets = splitcontainer.widgets]_vars

====
